---- MODULE Spec2Model ----
(***************************************************************************)
(* The launcher of the Gomoku game (src/src/start.py): it inspects         *)
(* sys.argv, constructs one of the two front-ends (UI or GomokuGUI) with   *)
(* size=10 and calls its run().                                            *)
(*                                                                         *)
(* Two independent invocations of the launcher (Runs) are modelled side by *)
(* side, each with its own sys.argv, so that statements comparing two runs *)
(* (determinism, dependence on the first argument only) are statable.      *)
(* The front-ends themselves are external: a constructor call or a run     *)
(* call either returns or raises some exception, or never comes back.      *)
(***************************************************************************)
EXTENDS Integers, Sequences, FiniteSets, TLC

\* ------------------------------------------------------------- bounds

\* Largest number of command-line arguments after the script name.
MaxArgs == 2

\* The two invocations that are compared.
Runs == {1, 2}

\* Strings a command-line argument may be.
Args == {"--ui", "--gui", "extra"}

\* sys.argv[0], the script name.
Prog == "start.py"

\* Exceptions a front-end's constructor or run may raise.
Exceptions == {"ImportError", "RuntimeError"}

\* No exception / no value.
None == "None"

\* ------------------------------------------------------ program state

VARIABLES
    sys_argv,     \* run -> the process's sys.argv (script name first)
    pc,           \* run -> the statement the launcher is at (kept when it ends)
    selected,     \* run -> the class the taken branch names, or None
    instances,    \* run -> the front-end instances constructed so far
    gomoku_game,  \* run -> index in instances bound to gomoku_game, 0 unbound
    calls,        \* run -> the calls the launcher has made, in order
    raised,       \* run -> the exception a front-end raised, or None
    uncaught      \* run -> the exception that ended the process, or None

vars == <<sys_argv, pc, selected, instances, gomoku_game, calls, raised, uncaught>>

RECURSIVE SeqsUpTo(_, _)
\* All sequences over S of length at most n.
SeqsUpTo(S, n) ==
    IF n = 0 THEN {<<>>}
    ELSE LET shorter == SeqsUpTo(S, n - 1)
         IN shorter \cup {Append(s, x) : s \in {t \in shorter : Len(t) = n - 1}, x \in S}

\* Every sys.argv of the bounded model: the script name, then the arguments.
ArgvLists == {<<Prog>> \o a : a \in SeqsUpTo(Args, MaxArgs)}

\* The arguments proper, sys.argv[1:].
ArgList(argv) == SubSeq(argv, 2, Len(argv))

\* --------------------------------------------------- the code, line 7

\* Python's seq[i] for i >= 0 (0-based): the element, or IndexError.
Subscript(seq, i) == IF i < Len(seq) THEN seq[i + 1] ELSE "IndexError"

\* Mutant of Condition: compares sys.argv[0] (off by one).
ConditionArgv0(argv) ==
    IF ~(Len(argv) > 0) THEN "False"
    ELSE IF Subscript(argv, 0) = "--ui" THEN "True" ELSE "False"

\* Mutant of Condition: the comparison with "--ui" is left out.
ConditionAnyArg(argv) ==
    IF ~(Len(argv) > 1) THEN "False" ELSE "True"

\* Mutant of Condition: "--ui" in sys.argv, at any position.
ConditionContains(argv) ==
    IF \E i \in 1..Len(argv) : argv[i] = "--ui" THEN "True" ELSE "False"

\* Mutant of Condition: the length guard is left out.
ConditionUnguarded(argv) ==
    IF Subscript(argv, 1) = "IndexError" THEN "IndexError"
    ELSE IF Subscript(argv, 1) = "--ui" THEN "True" ELSE "False"

\* Mutant of Condition: len(sys.argv) == 2 instead of len(sys.argv) > 1.
ConditionExactlyOne(argv) ==
    IF ~(Len(argv) = 2) THEN "False"
    ELSE IF Subscript(argv, 1) = "--ui" THEN "True" ELSE "False"

\* len(sys.argv) > 1 and sys.argv[1] == "--ui", with Python's short-circuit
\* `and`: "True", "False", or "IndexError" when the subscript is out of range.
Condition(argv) ==
    IF ~(Len(argv) > 1) THEN "False"
    ELSE IF Subscript(argv, 1) = "IndexError" THEN "IndexError"
    ELSE IF Subscript(argv, 1) = "--ui" THEN "True" ELSE "False"

\* --------------------------------------------- the code, lines 8 and 10

\* size=10 of UI(size=10).
UI_size == 10

\* Mutant of GomokuGUI_size: the standard 15x15 Gomoku board.
GomokuGUI_size_standard == 10 + 5

\* size=10 of GomokuGUI(size=10).
GomokuGUI_size == 10

\* The size argument of the constructor call of class cls.
SizeArg(cls) == IF cls = "UI" THEN UI_size ELSE GomokuGUI_size

\* A record of one call the launcher makes.
ConstructCall(cls, size) == [op |-> "construct", cls |-> cls, size |-> size, self |-> 0]
RunCall(cls, self) == [op |-> "run", cls |-> cls, size |-> 0, self |-> self]

\* An exception raised inside a call leaves the module unchanged: there is no
\* try/except around lines 7-12.
Propagate(e) == e

\* ------------------------------------------------------------- Init

Init ==
    /\ sys_argv \in [Runs -> ArgvLists]
    /\ pc = [r \in Runs |-> "main"]
    /\ selected = [r \in Runs |-> None]
    /\ instances = [r \in Runs |-> <<>>]
    /\ gomoku_game = [r \in Runs |-> 0]
    /\ calls = [r \in Runs |-> <<>>]
    /\ raised = [r \in Runs |-> None]
    /\ uncaught = [r \in Runs |-> None]

\* ----------------------------------------------------------- actions

\* Line 7: the if statement evaluates its condition and takes a branch.
Inspect(r) ==
    /\ pc[r] = "main"
    /\ uncaught[r] = None
    /\ LET c == Condition(sys_argv[r])
       IN  IF c = "IndexError"
           THEN /\ uncaught' = [uncaught EXCEPT ![r] = "IndexError"]
                /\ UNCHANGED <<pc, selected>>
           ELSE /\ pc' = [pc EXCEPT ![r] = "construct"]
                /\ selected' = [selected EXCEPT ![r] = IF c = "True" THEN "UI" ELSE "GomokuGUI"]
                /\ UNCHANGED uncaught
    /\ UNCHANGED <<sys_argv, instances, gomoku_game, calls, raised>>

\* Lines 8 and 10: the taken branch calls the constructor of its class.
CallConstructor(r) ==
    /\ pc[r] = "construct"
    /\ uncaught[r] = None
    /\ pc' = [pc EXCEPT ![r] = "in_constructor"]
    /\ calls' = [calls EXCEPT ![r] = Append(@, ConstructCall(selected[r], SizeArg(selected[r])))]
    /\ UNCHANGED <<sys_argv, selected, instances, gomoku_game, raised, uncaught>>

\* Mutant of ConstructorReturns: the else is missing, so after UI(size=10)
\* control falls through to the GomokuGUI(size=10) line.
ConstructorReturnsFallThrough(r) ==
    /\ pc[r] = "in_constructor"
    /\ uncaught[r] = None
    /\ LET call == calls[r][Len(calls[r])]
       IN  instances' = [instances EXCEPT ![r] = Append(@, [cls |-> call.cls, size |-> call.size])]
    /\ gomoku_game' = [gomoku_game EXCEPT ![r] = Len(instances[r]) + 1]
    /\ IF selected[r] = "UI"
       THEN /\ pc' = [pc EXCEPT ![r] = "construct"]
            /\ selected' = [selected EXCEPT ![r] = "GomokuGUI"]
       ELSE /\ pc' = [pc EXCEPT ![r] = "run"]
            /\ UNCHANGED selected
    /\ UNCHANGED <<sys_argv, calls, raised, uncaught>>

\* Lines 8 and 10: the constructor returns the new instance, which is bound
\* to gomoku_game.
ConstructorReturns(r) ==
    /\ pc[r] = "in_constructor"
    /\ uncaught[r] = None
    /\ LET call == calls[r][Len(calls[r])]
       IN  instances' = [instances EXCEPT ![r] = Append(@, [cls |-> call.cls, size |-> call.size])]
    /\ gomoku_game' = [gomoku_game EXCEPT ![r] = Len(instances[r]) + 1]
    /\ pc' = [pc EXCEPT ![r] = "run"]
    /\ UNCHANGED <<sys_argv, selected, calls, raised, uncaught>>

\* Mutant of ConstructorRaises: a try/except around UI(size=10) that falls
\* back to the graphical front-end.
ConstructorRaisesFallback(r) ==
    /\ pc[r] = "in_constructor"
    /\ uncaught[r] = None
    /\ \E e \in Exceptions :
         /\ raised' = [raised EXCEPT ![r] = e]
         /\ IF selected[r] = "UI"
            THEN /\ pc' = [pc EXCEPT ![r] = "construct"]
                 /\ selected' = [selected EXCEPT ![r] = "GomokuGUI"]
                 /\ UNCHANGED uncaught
            ELSE /\ uncaught' = [uncaught EXCEPT ![r] = Propagate(e)]
                 /\ UNCHANGED <<pc, selected>>
    /\ UNCHANGED <<sys_argv, instances, gomoku_game, calls>>

\* Lines 8 and 10: the constructor raises; nothing catches the exception, so
\* gomoku_game stays unbound and the process ends with it.
ConstructorRaises(r) ==
    /\ pc[r] = "in_constructor"
    /\ uncaught[r] = None
    /\ \E e \in Exceptions :
         /\ raised' = [raised EXCEPT ![r] = e]
         /\ uncaught' = [uncaught EXCEPT ![r] = Propagate(e)]
    /\ UNCHANGED <<sys_argv, pc, selected, instances, gomoku_game, calls>>

\* Line 12: gomoku_game.run() is called.
CallRun(r) ==
    /\ pc[r] = "run"
    /\ uncaught[r] = None
    /\ pc' = [pc EXCEPT ![r] = "in_run"]
    /\ calls' = [calls EXCEPT ![r] =
                   Append(@, RunCall(instances[r][gomoku_game[r]].cls, gomoku_game[r]))]
    /\ UNCHANGED <<sys_argv, selected, instances, gomoku_game, raised, uncaught>>

\* Mutant of RunReturns: the main block is wrapped in a loop, so after the
\* front-end returns the launcher starts over.
RunReturnsRestart(r) ==
    /\ pc[r] = "in_run"
    /\ uncaught[r] = None
    /\ pc' = [pc EXCEPT ![r] = IF Len(calls[r]) < 3 THEN "main" ELSE "exit"]
    /\ UNCHANGED <<sys_argv, selected, instances, gomoku_game, calls, raised, uncaught>>

\* Mutant of RunReturns: run() is called again after it returns.
RunReturnsRunAgain(r) ==
    /\ pc[r] = "in_run"
    /\ uncaught[r] = None
    /\ pc' = [pc EXCEPT ![r] = IF Len(calls[r]) < 3 THEN "run" ELSE "exit"]
    /\ UNCHANGED <<sys_argv, selected, instances, gomoku_game, calls, raised, uncaught>>

\* Line 12: run() returns; the module has no further statement and the
\* process exits.
RunReturns(r) ==
    /\ pc[r] = "in_run"
    /\ uncaught[r] = None
    /\ pc' = [pc EXCEPT ![r] = "exit"]
    /\ UNCHANGED <<sys_argv, selected, instances, gomoku_game, calls, raised, uncaught>>

\* Line 12: run() raises; nothing catches the exception.
RunRaises(r) ==
    /\ pc[r] = "in_run"
    /\ uncaught[r] = None
    /\ \E e \in Exceptions :
         /\ raised' = [raised EXCEPT ![r] = e]
         /\ uncaught' = [uncaught EXCEPT ![r] = Propagate(e)]
    /\ UNCHANGED <<sys_argv, pc, selected, instances, gomoku_game, calls>>

Next ==
    \E r \in Runs :
        \/ Inspect(r)
        \/ CallConstructor(r)
        \/ ConstructorReturns(r)
        \/ ConstructorRaises(r)
        \/ CallRun(r)
        \/ RunReturns(r)
        \/ RunRaises(r)

Spec == Init /\ [][Next]_vars

\* The interpreter executes the launcher's own statements one after the other:
\* each step of the launcher itself is taken once it is enabled.  Nothing is
\* assumed about the front-ends: a constructor or run() may never come back.
FairSpec ==
    /\ Spec
    /\ \A r \in Runs : WF_vars(Inspect(r)) /\ WF_vars(CallConstructor(r)) /\ WF_vars(CallRun(r))

\* ============================================================ claims

\* ----- vocabulary of the claims

Classes == {"UI", "GomokuGUI"}

\* The first command-line argument of run r is exactly "--ui".
FirstIsUI(r) ==
    Len(ArgList(sys_argv[r])) >= 1 /\ ArgList(sys_argv[r])[1] = "--ui"

\* "--ui" occurs among the arguments of run r after the first one.
LaterUI(r) ==
    \E i \in 2..Len(ArgList(sys_argv[r])) : ArgList(sys_argv[r])[i] = "--ui"

\* The positions in the call trace of run r of the calls of kind op.
CallsOf(r, op) == {i \in DOMAIN calls[r] : calls[r][i].op = op}

\* Every front-end that run r has asked for, constructed or selected is cls.
OnlyClass(r, cls) ==
    /\ pc[r] # "main" => selected[r] = cls
    /\ \A i \in CallsOf(r, "construct") : calls[r][i].cls = cls
    /\ \A i \in DOMAIN instances[r] : instances[r][i].cls = cls

\* The launcher's two states: Running once control has been handed to run().
Running(r) == pc[r] \in {"in_run", "exit"}
Idle(r) == ~Running(r)

\* The process of run r has ended.
Ended(r) == uncaught[r] # None \/ pc[r] = "exit"

\* Everything that belongs to run r stays as it is in this step.
Frozen(r) ==
    /\ pc'[r] = pc[r]
    /\ selected'[r] = selected[r]
    /\ instances'[r] = instances[r]
    /\ gomoku_game'[r] = gomoku_game[r]
    /\ calls'[r] = calls[r]
    /\ raised'[r] = raised[r]
    /\ uncaught'[r] = uncaught[r]

\* s is a prefix of t.
IsPrefix(s, t) == Len(s) <= Len(t) /\ SubSeq(t, 1, Len(s)) = s

\* Runs a and b got argument lists that are both empty or start alike.
SameFirst(a, b) ==
    LET x == ArgList(sys_argv[a])
        y == ArgList(sys_argv[b])
    IN  \/ Len(x) = 0 /\ Len(y) = 0
        \/ Len(x) >= 1 /\ Len(y) >= 1 /\ x[1] = y[1]

\* ----- C1
\* C1: whenever the first argument is exactly "--ui" (whatever follows it),
\* the launcher selects the text front-end: the branch taken names UI, every
\* constructor call is UI's and every instance constructed is a UI.
C1_UiSelectsText ==
    \A r \in Runs : FirstIsUI(r) => OnlyClass(r, "UI")

\* A run started with ["--ui", x] has constructed its UI instance.
C1_Witness ==
    \E r \in Runs :
        /\ FirstIsUI(r)
        /\ Len(ArgList(sys_argv[r])) = 2
        /\ Len(instances[r]) = 1
        /\ instances[r][1].cls = "UI"

\* ----- C2
\* C2: whenever the argument list is empty or its first element is not
\* "--ui", the launcher selects the graphical front-end: the branch taken
\* names GomokuGUI, every constructor call is GomokuGUI's and every instance
\* constructed is a GomokuGUI.
C2_OtherSelectsGraphical ==
    \A r \in Runs : ~FirstIsUI(r) => OnlyClass(r, "GomokuGUI")

\* One run with no argument and one with another first argument have both
\* constructed a GomokuGUI.
C2_Witness ==
    \E a, b \in Runs :
        /\ Len(ArgList(sys_argv[a])) = 0
        /\ Len(ArgList(sys_argv[b])) >= 1 /\ ArgList(sys_argv[b])[1] = "extra"
        /\ \A r \in {a, b} : Len(instances[r]) = 1 /\ instances[r][1].cls = "GomokuGUI"

\* ----- C3
\* The constructor calls of run r, as far as it has got: never more than one,
\* never of a class other than the selected one, never a second instance;
\* exactly one call once the constructor has been entered, and exactly one
\* instance once construction has completed, up to and after the call of run.
C3_AtMostOne(r) ==
    /\ Cardinality(CallsOf(r, "construct")) <= 1
    /\ Len(instances[r]) <= 1
    /\ \A i \in CallsOf(r, "construct") : calls[r][i].cls = selected[r]
    /\ \A i \in DOMAIN instances[r] : instances[r][i].cls = selected[r]
    /\ pc[r] \in {"in_constructor", "run", "in_run", "exit"}
          => Cardinality(CallsOf(r, "construct")) = 1
    /\ pc[r] \in {"run", "in_run", "exit"} => Len(instances[r]) = 1

\* C3: in every run the constructor of the selected variant is called exactly
\* once (it is eventually called, and never again), and the constructor of
\* the other variant is never called, before or after the call of run.
C3_ExactlyOneConstruction ==
    /\ [](\A r \in Runs : C3_AtMostOne(r))
    /\ \A r \in Runs : <>(Cardinality(CallsOf(r, "construct")) = 1)

\* A run that selected UI has ended after run() returned, with one instance.
C3_Witness ==
    \E r \in Runs :
        /\ pc[r] = "exit"
        /\ selected[r] = "UI"
        /\ Len(instances[r]) = 1
        /\ Cardinality(CallsOf(r, "construct")) = 1

\* ----- C4
\* C4: whatever the arguments and the variant selected, the size passed to
\* the constructor is 10, and so is the size of the instance constructed.
C4_BoardSizeTen ==
    \A r \in Runs :
        /\ \A i \in CallsOf(r, "construct") : calls[r][i].size = 10
        /\ \A i \in DOMAIN instances[r] : instances[r][i].size = 10

\* A UI and a GomokuGUI have both been constructed, from argument lists of
\* different shapes.
C4_Witness ==
    \E a, b \in Runs :
        /\ Len(instances[a]) = 1 /\ instances[a][1].cls = "UI"
        /\ Len(instances[b]) = 1 /\ instances[b][1].cls = "GomokuGUI"
        /\ Len(ArgList(sys_argv[b])) = 2

\* ----- C5
\* The launcher has no error outcome of its own: once the arguments have been
\* inspected one of the two variants is selected, a process that ended with
\* an exception ended with one a front-end raised, and every constructor call
\* is a call of one of the two variants.
C5_NoLauncherError(r) ==
    /\ pc[r] # "main" => selected[r] \in Classes
    /\ uncaught[r] # None => raised[r] # None
    /\ uncaught[r] # "IndexError"
    /\ \A i \in CallsOf(r, "construct") : calls[r][i].cls \in Classes

\* C5: the selection is total: for every argument list (empty, unrecognized
\* first flag, extra arguments) the launcher never fails on the arguments and
\* reaches the constructor call of exactly one of the two variants.
C5_SelectionTotal ==
    /\ [](\A r \in Runs : C5_NoLauncherError(r))
    /\ \A r \in Runs :
         <>(/\ Cardinality(CallsOf(r, "construct")) = 1
            /\ \A i \in CallsOf(r, "construct") : calls[r][i].cls \in Classes)

\* A run with no argument and a run with an unrecognized flag followed by an
\* extra argument have both reached their constructor call.
C5_Witness ==
    \E a, b \in Runs :
        /\ Len(ArgList(sys_argv[a])) = 0
        /\ ArgList(sys_argv[b]) = <<"--gui", "extra">>
        /\ \A r \in {a, b} : Cardinality(CallsOf(r, "construct")) = 1

\* ----- C6
\* C6: "--ui" counts only as the first argument: when the first argument is
\* not "--ui" and "--ui" occurs later, the graphical front-end is selected.
C6_LaterUiIgnored ==
    \A r \in Runs : (~FirstIsUI(r) /\ LaterUI(r)) => OnlyClass(r, "GomokuGUI")

\* A run started with [x, "--ui"], x # "--ui", has constructed a GomokuGUI.
C6_Witness ==
    \E r \in Runs :
        /\ ~FirstIsUI(r)
        /\ LaterUI(r)
        /\ Len(instances[r]) = 1
        /\ instances[r][1].cls = "GomokuGUI"

\* ----- C7
\* C7 as stated: the transition Idle -> Running is unconditional and happens
\* in every run, so no run of the launcher ends while it is still Idle.
C7_NeverEndsIdle ==
    \A r \in Runs : Ended(r) => Running(r)

\* Running is terminal: a launcher that is Running stays Running, and neither
\* inspects the arguments, nor constructs, nor calls run again.
C7_RunningTerminal ==
    \A r \in Runs :
        Running(r) =>
            /\ Running(r)'
            /\ selected'[r] = selected[r]
            /\ instances'[r] = instances[r]
            /\ gomoku_game'[r] = gomoku_game[r]
            /\ calls'[r] = calls[r]

\* The transition happens at most once, by the one call of run; a launcher
\* that ended Idle ended in the constructor, with the constructor's exception.
C7_AtMostOnce ==
    \A r \in Runs :
        /\ Cardinality(CallsOf(r, "run")) <= 1
        /\ (Running(r) <=> Cardinality(CallsOf(r, "run")) = 1)
        /\ (Ended(r) /\ Idle(r)) =>
              /\ pc[r] = "in_constructor"
              /\ raised[r] # None
              /\ uncaught[r] = raised[r]
              /\ instances[r] = <<>>

\* C7, amended: the transition Idle -> Running happens at most once; for
\* every argument list the launcher reaches the constructor call of the
\* selected front-end, and it becomes Running whenever that constructor
\* returns (it ends Idle only when the constructor raises); Running is
\* terminal.
C7_Amended ==
    /\ [][C7_RunningTerminal]_vars
    /\ []C7_AtMostOnce
    /\ \A r \in Runs : (pc[r] = "main") ~> (pc[r] = "in_constructor")
    /\ \A r \in Runs : (pc[r] = "run") ~> Running(r)

\* One run is Running after its constructor returned, the other has ended
\* Idle because its constructor raised.
C7_Witness ==
    \E a, b \in Runs :
        /\ pc[a] = "exit" /\ Cardinality(CallsOf(a, "run")) = 1
        /\ Ended(b) /\ Idle(b) /\ pc[b] = "in_constructor"

\* ----- C8
\* What holds of a run in which a front-end has raised: the process ended
\* with that very exception; if it was the constructor that raised, nothing
\* is bound to gomoku_game, no instance exists, run was never called and the
\* constructor was called once.
C8_Propagated(r) ==
    raised[r] # None =>
        /\ uncaught[r] = raised[r]
        /\ Cardinality(CallsOf(r, "construct")) = 1
        /\ \A i \in CallsOf(r, "construct") : calls[r][i].cls = selected[r]
        /\ pc[r] = "in_constructor" =>
              /\ CallsOf(r, "run") = {}
              /\ instances[r] = <<>>
              /\ gomoku_game[r] = 0
        /\ pc[r] # "in_constructor" =>
              /\ pc[r] = "in_run"
              /\ Cardinality(CallsOf(r, "run")) = 1

\* C8: an exception raised by the selected front-end's constructor or run
\* ends the process unmodified, and is fatal: afterwards the launcher does
\* nothing more (no retry, no construction of the other variant), and after
\* a failed construction run is never called.
C8_FailureFatal ==
    /\ [](\A r \in Runs : C8_Propagated(r))
    /\ [][\A r \in Runs : raised[r] # None => Frozen(r)]_vars

\* One run whose UI constructor raised and one whose run() raised, while the
\* other run went on.
C8_Witness ==
    \E a, b \in Runs :
        /\ raised[a] = "ImportError" /\ pc[a] = "in_constructor" /\ selected[a] = "UI"
        /\ raised[b] = "RuntimeError" /\ pc[b] = "in_run"

C10_FirstArgumentOnly ==
    \A a, b \in Runs :
        SameFirst(a, b) =>
            /\ (pc[a] # "main" /\ pc[b] # "main") => selected[a] = selected[b]
            /\ (IsPrefix(calls[a], calls[b]) \/ IsPrefix(calls[b], calls[a]))
            /\ (pc[a] = pc[b] => calls[a] = calls[b])

\* Two runs with different argument lists that start alike are both inside
\* run, and a run started twice with the same list: here with ["--ui"] and
\* ["--ui", x].
C10_Witness ==
    \E a, b \in Runs :
        /\ ArgList(sys_argv[a]) = <<"--ui">>
        /\ Len(ArgList(sys_argv[b])) = 2
        /\ SameFirst(a, b)
        /\ pc[a] = "in_run" /\ pc[b] = "in_run"
        /\ calls[a] = calls[b]

====
